---- MODULE Spec2Model ----
(***************************************************************************)
(* The indexer subcommands of geode-cli (src/src/indexer.rs): init, list,  *)
(* remove and export on the local clone of the index repository, and the   *)
(* squash (reset_and_commit) that rewrites the branch as root + one tip.   *)
(*                                                                         *)
(* Strings that the code takes apart or puts together (version strings,    *)
(* mod ids, directory names, commit messages) are sequences of one-letter  *)
(* strings.  File contents are numbers.                                    *)
(***************************************************************************)
EXTENDS Integers, Sequences, FiniteSets, TLC

VARIABLES
    exists,     \* geode_root()/indexer exists on disk
    wt,         \* the directory's immediate entries: name -> node
    commits,    \* the repository's commits, in creation order
    head,       \* HEAD: [tip: commit number, 0 when unborn; branch: is_branch()]
    index,      \* the repository's index (staged tree)
    outcome     \* what the last command was given and how it ended

vars == <<exists, wt, commits, head, index, outcome>>

(***************************************************************************)
(* Bounds of the model.                                                    *)
(***************************************************************************)
MaxCommits == 4      \* commits the repository may hold before commands stop
MaxForkDepth == 3    \* longest history of a fork that init clones
MaxVerLen == 3       \* longest version string of SpecVersion

(***************************************************************************)
(* Names.                                                                  *)
(***************************************************************************)
ArtifactName == "mod.geode"
GitDirName == <<".", "g", "i", "t">>
ReadmeName == <<"R", "E", "A", "D", "M", "E">>
DocsName == <<"d", "o", "c", "s">>
IdA == <<"a">>
IdB == <<"b">>
AddUpdatePrefix == <<"A", "d", "d", "/", "U", "p", "d", "a", "t", "e", " ">>
RemovePrefix == <<"R", "e", "m", "o", "v", "e", " ">>

(***************************************************************************)
(* Directory nodes.  A directory holds a set of <<file name, bytes>>.      *)
(***************************************************************************)
DirNode(files) == [dir |-> TRUE, files |-> files, bytes |-> 0]
FileNode(bytes) == [dir |-> FALSE, files |-> {}, bytes |-> bytes]
EmptyTree == [n \in {} |-> DirNode({})]

HasArtifact(node) == \E f \in node.files : f[1] = ArtifactName

\* What git sees of the working directory: every file below the store
\* except the repository's own directory.  A top-level file has no
\* second path component.
Snapshot(w) ==
    UNION { IF w[n].dir
              THEN { <<n, f[1], f[2]>> : f \in w[n].files }
              ELSE { <<n, "", w[n].bytes>> }
            : n \in DOMAIN w \ {GitDirName} }


(***************************************************************************)
(* The repository.  A commit is [parents, tree, msg]; its number is its    *)
(* place in commits.  NoHead is a repository with no commit (or none).     *)
(***************************************************************************)
NoHead == [tip |-> 0, branch |-> TRUE]

\* Faulty variant: the commit is made without a parent.
CommitOrphan(parents, tree, msg) == [parents |-> <<>>, tree |-> tree, msg |-> msg]

Commit(parents, tree, msg) == [parents |-> parents, tree |-> tree, msg |-> msg]

\* Faulty variant: the walk follows the last parent instead of the first.
RECURSIVE WalkToRootLastParent(_, _)
WalkToRootLastParent(cs, c) ==
    IF Len(cs[c].parents) > 0
      THEN WalkToRootLastParent(cs, cs[c].parents[Len(cs[c].parents)])
      ELSE c

\* reset_and_commit lines 39-42: from a commit, follow parent(0) until a
\* commit without parents.
RECURSIVE WalkToRoot(_, _)
WalkToRoot(cs, c) ==
    IF Len(cs[c].parents) > 0 THEN WalkToRoot(cs, cs[c].parents[1]) ELSE c

\* The commits of a history counted along first parents, the root included.
RECURSIVE HistoryLen(_, _)
HistoryLen(cs, c) ==
    IF c = 0 THEN 0
    ELSE IF Len(cs[c].parents) > 0 THEN 1 + HistoryLen(cs, cs[c].parents[1])
    ELSE 1

\* Every ancestor of a commit (along every parent), the commit excluded.
RECURSIVE Ancestors(_, _)
Ancestors(cs, c) ==
    LET ps == { cs[c].parents[i] : i \in 1..Len(cs[c].parents) }
    IN  ps \cup UNION { Ancestors(cs, p) : p \in ps }

\* Faulty variant: files that are gone stay in the index.
AddAllNoDelete(idx, w) ==
    LET work == Snapshot(w)
        SamePath(x, y) == x[1] = y[1] /\ x[2] = y[2]
        stale == { e \in idx : \E s \in work : SamePath(e, s) /\ s # e }
    IN  (idx \ stale) \cup work

\* index.add_all(["."]) on the index idx with working directory w: entries
\* whose file is gone are dropped, the others are added or updated.
AddAll(idx, w) ==
    LET work == Snapshot(w)
        SamePath(x, y) == x[1] = y[1] /\ x[2] = y[2]
        deleted == { e \in idx : ~ \E s \in work : SamePath(e, s) }
        stale == { e \in idx : \E s \in work : SamePath(e, s) /\ s # e }
    IN  ((idx \ deleted) \ stale) \cup work

\* Faulty variant: no walk to the root, the new commit goes on top of the tip.
SquashBaseTip(cs, tip) == tip

\* The commit that reset_and_commit resets to and uses as the parent.
SquashBase(cs, tip) == WalkToRoot(cs, tip)

\* Faulty variant: HEAD is taken for a branch without being asked.
IsBranchUnchecked(h) == TRUE

\* reset_and_commit line 35: head.is_branch()
IsBranch(h) == h.branch

\* Faulty variant: a hard reset, which takes every file that the commit
\* reset to does not hold out of the working directory.
WorkTreeAfterHardReset(w, tree) ==
    [n \in { m \in DOMAIN w : m = GitDirName \/ \E e \in tree : e[1] = m } |-> w[n]]

\* reset_and_commit line 44: repo.reset(.., ResetType::Soft, ..) on the
\* commit whose tree is given moves the branch and leaves the working
\* directory (and the index) as they are.
WorkTreeAfterReset(w, tree) == w

\* reset_and_commit(repo, msg), with the working directory w at the time of
\* the call.  The result names the error, if any, and the repository and
\* the working directory after.
ResetAndCommit(w, msg) ==
    IF head.tip = 0
      THEN [err |-> "BrokenHead", commits |-> commits, head |-> head,
            index |-> index, wt |-> w]
    ELSE IF ~IsBranch(head)
      THEN [err |-> "DetachedState", commits |-> commits, head |-> head,
            index |-> index, wt |-> w]
    ELSE LET base == SquashBase(commits, head.tip)
             work == WorkTreeAfterReset(w, commits[base].tree)
             staged == AddAll(index, work)
             made == Commit(<<base>>, staged, msg)
         IN  [err |-> "none",
              commits |-> Append(commits, made),
              head |-> [tip |-> Len(commits) + 1, branch |-> TRUE],
              index |-> staged,
              wt |-> work]

(***************************************************************************)
(* Version strings.                                                        *)
(***************************************************************************)
\* str::split("."): the pieces between the dots, at least one piece.
RECURSIVE SplitDot(_, _)
SplitDot(s, cur) ==
    IF s = <<>> THEN <<cur>>
    ELSE IF Head(s) = "." THEN <<cur>> \o SplitDot(Tail(s), <<>>)
    ELSE SplitDot(Tail(s), Append(cur, Head(s)))

NotV(c) == c # "v"

\* Faulty variant: only the leading 'v' characters are removed.
RECURSIVE TrimLeadingV(_)
TrimLeadingV(s) ==
    IF s # <<>> /\ Head(s) = "v" THEN TrimLeadingV(Tail(s)) ELSE s

MajorVersionTrimStart(version) == TrimLeadingV(Head(SplitDot(version, <<>>)))

\* export_mod lines 124-134: split on ".", take the first piece, keep the
\* characters that are not 'v'.
MajorVersion(version) ==
    SelectSeq(Head(SplitDot(version, <<>>)), NotV)

\* Faulty variant: the directory name leaves the major version out.
EntryNameNoMajor(id, major) == id \o <<"@">>

\* format!("{}@{}", mod_id, major_version)
EntryName(id, major) == id \o <<"@">> \o major

(***************************************************************************)
(* Inputs: the package a user exports, the id a user removes, the fork a   *)
(* user clones.                                                            *)
(***************************************************************************)
\* A package path: whether the path exists, whether the file is a zip
\* archive, what mod.json it holds, its "version" and "id" values (a string,
\* absent, or a value that is no string), and the file's bytes.
Package(present, archive, meta, verKind, ver, idKind, id, bytes) ==
    [present |-> present, archive |-> archive, meta |-> meta,
     verKind |-> verKind, ver |-> ver, idKind |-> idKind, id |-> id,
     bytes |-> bytes]

GoodPackage(id, ver, bytes) == Package(TRUE, "zip", "ok", "str", ver, "str", id, bytes)

NoPackage == Package(FALSE, "none", "none", "absent", <<>>, "absent", <<>>, 0)

PkgA1 == GoodPackage(IdA, <<"v", "1", ".", "0">>, 1)
PkgA1b == GoodPackage(IdA, <<"1", ".", "2">>, 2)
PkgA2 == GoodPackage(IdA, <<"2">>, 3)
PkgBv == GoodPackage(IdB, <<"v">>, 4)

Packages ==
    { PkgA1, PkgA1b, PkgA2, PkgBv,
      Package(FALSE, "zip", "ok", "str", <<"1">>, "str", IdA, 1),
      Package(TRUE, "bad", "ok", "str", <<"1">>, "str", IdA, 1),
      Package(TRUE, "zip", "missing", "str", <<"1">>, "str", IdA, 1),
      Package(TRUE, "zip", "malformed", "str", <<"1">>, "str", IdA, 1),
      Package(TRUE, "zip", "ok", "absent", <<>>, "str", IdA, 1),
      Package(TRUE, "zip", "ok", "other", <<>>, "str", IdA, 1),
      Package(TRUE, "zip", "ok", "str", <<"1">>, "absent", <<>>, 1),
      Package(TRUE, "zip", "ok", "str", <<"1">>, "other", <<>>, 1) }

\* The ids given to remove: single path components and the empty string.
RemoveIds ==
    { <<>>, GitDirName, ReadmeName, DocsName, IdA, <<"z">>,
      EntryName(IdA, <<"1">>), EntryName(IdA, <<"2">>), EntryName(IdB, <<>>) }

\* A fork: how many commits it has, what its tip holds, whether its HEAD
\* names a branch, and whether its tip is a merge.  A fork without commits
\* has neither files nor a commit to detach to.  The history is a chain;
\* in a merged fork the tip's first parent is the root of a history of its
\* own and its second parent is the chain of the commits before.
Forks ==
    { f \in [depth : 0..MaxForkDepth, tree : {"plain", "used"},
             detached : BOOLEAN, merged : BOOLEAN] :
        /\ f.depth = 0 => (f.tree = "plain" /\ ~f.detached)
        /\ f.merged => f.depth >= 3 }

ForkMsg == <<"f">>

\* The files a clone of the fork checks out.
ForkFiles(f) ==
    IF f.depth = 0 THEN EmptyTree
    ELSE IF f.tree = "plain"
      THEN [n \in {ReadmeName} |-> FileNode(7)]
    ELSE [n \in {ReadmeName, DocsName, EntryName(IdA, <<"1">>)} |->
            IF n = ReadmeName THEN FileNode(7)
            ELSE IF n = DocsName THEN DirNode({<<"x", 8>>})
            ELSE DirNode({<<ArtifactName, 1>>})]

\* w with the entry n set to node.
Put(w, n, node) == [m \in DOMAIN w \cup {n} |-> IF m = n THEN node ELSE w[m]]

\* w without the entry n.
Drop(w, n) == [m \in DOMAIN w \ {n} |-> w[m]]

\* The fork's commits, the tip holding the fork's files.
RECURSIVE ForkChain(_, _)
ForkChain(f, n) ==
    IF n = 0 THEN <<>>
    ELSE Append(ForkChain(f, n - 1),
                Commit(IF n = 1 THEN <<>>
                       ELSE IF f.merged /\ n = f.depth THEN <<n - 1, n - 2>>
                       ELSE IF f.merged /\ n = f.depth - 1 THEN <<>>
                       ELSE <<n - 1>>,
                       IF n = f.depth THEN Snapshot(ForkFiles(f)) ELSE {},
                       ForkMsg))

ForkCommits(f) == ForkChain(f, f.depth)

(***************************************************************************)
(* Outcomes.  exit is "ok" for a normal return and "fatal" for fatal! or a *)
(* panic (a failed expect).                                                *)
(***************************************************************************)
Outcome(cmd, id, pkg, result, exit, out, major) ==
    [cmd |-> cmd, id |-> id, pkg |-> pkg, result |-> result, exit |-> exit,
     out |-> out, major |-> major]

NoOutcome == Outcome("none", <<>>, NoPackage, "none", "ok", <<>>, <<>>)

Fatal(cmd, id, pkg, result) == Outcome(cmd, id, pkg, result, "fatal", <<>>, <<>>)

Init ==
    /\ exists = FALSE
    /\ wt = EmptyTree
    /\ commits = <<>>
    /\ head = NoHead
    /\ index = {}
    /\ outcome = NoOutcome

(***************************************************************************)
(* init                                                                    *)
(***************************************************************************)
\* Faulty variant: init clones without looking at the path.
AlreadyInitializedSkipped == FALSE

\* initialize lines 58-61: whether init stops before cloning.
AlreadyInitialized == exists

\* Repository::clone(&fork_url, indexer_path): the directory and the
\* repository a successful clone of the fork leaves.
Clone(fork) ==
    [wt |-> Put(ForkFiles(fork), GitDirName, DirNode({<<"HEAD", 0>>})),
     commits |-> ForkCommits(fork),
     head |-> [tip |-> fork.depth, branch |-> ~fork.detached],
     index |-> Snapshot(ForkFiles(fork))]

Initialize(fork, cloneOk) ==
    IF AlreadyInitialized
      THEN /\ outcome' = Outcome("init", <<>>, NoPackage, "AlreadyInitialized", "ok", <<>>, <<>>)
           /\ UNCHANGED <<exists, wt, commits, head, index>>
    ELSE IF ~cloneOk
      THEN /\ outcome' = Fatal("init", <<>>, NoPackage, "CloneFailed")
           /\ UNCHANGED <<exists, wt, commits, head, index>>
    ELSE /\ exists' = TRUE
         /\ wt' = Clone(fork).wt
         /\ commits' = Clone(fork).commits
         /\ head' = Clone(fork).head
         /\ index' = Clone(fork).index
         /\ outcome' = Outcome("init", <<>>, NoPackage, "Done", "ok", <<>>, <<>>)

(***************************************************************************)
(* list                                                                    *)
(***************************************************************************)
\* Every order in which read_dir may yield the names of S.
RECURSIVE Orders(_)
Orders(S) ==
    IF S = {} THEN {<<>>}
    ELSE UNION { { <<x>> \o rest : rest \in Orders(S \ {x}) } : x \in S }

\* Faulty variant: every directory is listed, with or without the artifact.
IsListedAnyDir(node) == node.dir

\* list_mods line 83: path.is_dir() && path.join("mod.geode").exists()
IsListed(node) == node.dir /\ HasArtifact(node)

ListMods ==
    IF ~exists
      THEN /\ outcome' = Fatal("list", <<>>, NoPackage, "NotInitialized")
           /\ UNCHANGED <<exists, wt, commits, head, index>>
    ELSE \E order \in Orders(DOMAIN wt) :
           LET Shown(n) == IsListed(wt[n])
           IN  /\ outcome' = Outcome("list", <<>>, NoPackage, "Done", "ok",
                                     SelectSeq(order, Shown), <<>>)
               /\ UNCHANGED <<exists, wt, commits, head, index>>

(***************************************************************************)
(* remove                                                                  *)
(***************************************************************************)
\* remove_mod lines 95-96: indexer_path.join(&id).exists().  Joining the
\* empty string gives the indexer directory itself.
ModPathExists(id) == id = <<>> \/ id \in DOMAIN wt

\* Faulty variant: the squash runs first and the directory is deleted after.
RemoveAfterSquash == FALSE

\* remove_mod lines 100-103: remove_dir_all runs before reset_and_commit.
RemoveBeforeSquash == TRUE

\* remove_mod lines 90-98: the check that stops remove, or "none".
RemoveError(id) ==
    IF ~exists THEN "NotInitialized"
    ELSE IF ~ModPathExists(id) THEN "EntryNotFound"
    ELSE "none"

RemoveMod(id) ==
    /\ Len(commits) < MaxCommits
    /\ LET err == RemoveError(id)
       IN  IF err # "none"
             THEN /\ outcome' = Fatal("remove", id, NoPackage, err)
                  /\ UNCHANGED <<exists, wt, commits, head, index>>
           ELSE IF id = <<>>
             \* remove_dir_all of the indexer directory; then Repository::open fails
             THEN /\ exists' = FALSE
                  /\ wt' = EmptyTree
                  /\ commits' = <<>>
                  /\ head' = NoHead
                  /\ index' = {}
                  /\ outcome' = Fatal("remove", id, NoPackage, "RepoOpenFailed")
           ELSE IF ~wt[id].dir
             \* remove_dir_all of a file fails
             THEN /\ outcome' = Fatal("remove", id, NoPackage, "RemoveFailed")
                  /\ UNCHANGED <<exists, wt, commits, head, index>>
           ELSE IF id = GitDirName
             \* the repository itself is deleted; then Repository::open fails
             THEN /\ wt' = Drop(wt, id)
                  /\ commits' = <<>>
                  /\ head' = NoHead
                  /\ index' = {}
                  /\ outcome' = Fatal("remove", id, NoPackage, "RepoOpenFailed")
                  /\ UNCHANGED exists
           ELSE IF GitDirName \notin DOMAIN wt
             THEN /\ wt' = Drop(wt, id)
                  /\ outcome' = Fatal("remove", id, NoPackage, "RepoOpenFailed")
                  /\ UNCHANGED <<exists, commits, head, index>>
           ELSE LET r == ResetAndCommit(IF RemoveBeforeSquash THEN Drop(wt, id) ELSE wt,
                                        RemovePrefix \o id)
                IN  /\ wt' = IF RemoveBeforeSquash THEN r.wt ELSE Drop(r.wt, id)
                    /\ commits' = r.commits
                    /\ head' = r.head
                    /\ index' = r.index
                    /\ outcome' = IF r.err = "none"
                                    THEN Outcome("remove", id, NoPackage, "Done", "ok", <<>>, <<>>)
                                    ELSE Fatal("remove", id, NoPackage, r.err)
                    /\ UNCHANGED exists

(***************************************************************************)
(* export                                                                  *)
(***************************************************************************)
\* mod_json_from_archive: the archive's mod.json, or why there is none.
ModJsonFromArchive(pkg) ==
    IF pkg.meta = "missing" THEN "MetadataMissing"
    ELSE IF pkg.meta = "malformed" THEN "MetadataMalformed"
    ELSE "ok"

\* Faulty variant: the id is not checked before the directory is made.
ExportErrorIdUnchecked(pkg) ==
    IF ~exists THEN "NotInitialized"
    ELSE IF ~pkg.present THEN "SourceNotFound"
    ELSE IF pkg.archive # "zip" THEN "ArchiveUnreadable"
    ELSE IF ModJsonFromArchive(pkg) # "ok" THEN ModJsonFromArchive(pkg)
    ELSE IF pkg.verKind = "absent" THEN "FieldMissingVersion"
    ELSE IF pkg.verKind # "str" THEN "FieldTypeMismatchVersion"
    ELSE "none"

\* Faulty variant: the package path is looked at before the indexer directory.
ExportErrorPathFirst(pkg) ==
    IF ~pkg.present THEN "SourceNotFound"
    ELSE IF ~exists THEN "NotInitialized"
    ELSE IF pkg.archive # "zip" THEN "ArchiveUnreadable"
    ELSE IF ModJsonFromArchive(pkg) # "ok" THEN ModJsonFromArchive(pkg)
    ELSE IF pkg.verKind = "absent" THEN "FieldMissingVersion"
    ELSE IF pkg.verKind # "str" THEN "FieldTypeMismatchVersion"
    ELSE IF pkg.idKind = "absent" THEN "FieldMissingId"
    ELSE IF pkg.idKind # "str" THEN "FieldTypeMismatchId"
    ELSE "none"

\* export_mod lines 111-141: the first check that stops export, or "none".
ExportError(pkg) ==
    IF ~exists THEN "NotInitialized"
    ELSE IF ~pkg.present THEN "SourceNotFound"
    ELSE IF pkg.archive # "zip" THEN "ArchiveUnreadable"
    ELSE IF ModJsonFromArchive(pkg) # "ok" THEN ModJsonFromArchive(pkg)
    ELSE IF pkg.verKind = "absent" THEN "FieldMissingVersion"
    ELSE IF pkg.verKind # "str" THEN "FieldTypeMismatchVersion"
    ELSE IF pkg.idKind = "absent" THEN "FieldMissingId"
    ELSE IF pkg.idKind # "str" THEN "FieldTypeMismatchId"
    ELSE "none"

\* Faulty variant: the package is copied under another file name.
CopyArtifactOtherName(files, bytes) == files \cup { <<"package.geode", bytes>> }

\* Faulty variant: an artifact that is there already is left as it is.
CopyArtifactKeepOld(files, bytes) ==
    IF \E f \in files : f[1] = ArtifactName THEN files
    ELSE files \cup { <<ArtifactName, bytes>> }

\* fs::copy(package, mod_path.join("mod.geode")): the directory's files
\* with the artifact written, whatever it held before.
CopyArtifact(files, bytes) ==
    { f \in files : f[1] # ArtifactName } \cup { <<ArtifactName, bytes>> }

\* Faulty variant: create_dir is called whether or not the path exists.
NeedsCreateDirAlways(w, name) == TRUE

\* export_mod line 144: whether export calls fs::create_dir.
NeedsCreateDir(w, name) == name \notin DOMAIN w

\* fs::create_dir fails when the path exists already.
CreateDirFails(w, name) == name \in DOMAIN w

ExportMod(pkg) ==
    /\ Len(commits) < MaxCommits
    /\ LET err == ExportError(pkg)
           major == MajorVersion(pkg.ver)
           name == EntryName(pkg.id, major)
           create == NeedsCreateDir(wt, name)
           made == IF create THEN Put(wt, name, DirNode({})) ELSE wt
           copied == Put(made, name, DirNode(CopyArtifact(made[name].files, pkg.bytes)))
       IN  IF err # "none"
             THEN /\ outcome' = Fatal("export", <<>>, pkg, err)
                  /\ UNCHANGED <<exists, wt, commits, head, index>>
           ELSE IF create /\ CreateDirFails(wt, name)
             THEN /\ outcome' = Fatal("export", <<>>, pkg, "CreateDirFailed")
                  /\ UNCHANGED <<exists, wt, commits, head, index>>
           ELSE IF ~made[name].dir
             \* the path is a file: the copy below it fails
             THEN /\ outcome' = Fatal("export", <<>>, pkg, "CopyFailed")
                  /\ UNCHANGED <<exists, wt, commits, head, index>>
           ELSE IF GitDirName \notin DOMAIN copied
             THEN /\ wt' = copied
                  /\ outcome' = Fatal("export", <<>>, pkg, "RepoOpenFailed")
                  /\ UNCHANGED <<exists, commits, head, index>>
           ELSE LET r == ResetAndCommit(copied, AddUpdatePrefix \o pkg.id)
                IN  /\ wt' = r.wt
                    /\ commits' = r.commits
                    /\ head' = r.head
                    /\ index' = r.index
                    /\ outcome' = IF r.err = "none"
                                    THEN Outcome("export", <<>>, pkg, "Done", "ok", <<>>, major)
                                    ELSE Fatal("export", <<>>, pkg, r.err)
                    /\ UNCHANGED exists

(***************************************************************************)
(* subcommand: one command per invocation.                                 *)
(***************************************************************************)
Next ==
    \/ \E fork \in Forks, cloneOk \in BOOLEAN : Initialize(fork, cloneOk)
    \/ ListMods
    \/ \E id \in RemoveIds : RemoveMod(id)
    \/ \E pkg \in Packages : ExportMod(pkg)

Spec == Init /\ [][Next]_vars

(***************************************************************************)
(* The version derivation on its own: one export of a package with any     *)
(* version string of at most MaxVerLen characters, into a fresh clone of   *)
(* a fork with one commit.                                                 *)
(***************************************************************************)
VerChars == {"v", ".", "1", "2"}

RECURSIVE StringsOf(_)
StringsOf(n) ==
    IF n = 0 THEN {<<>>}
    ELSE StringsOf(n - 1) \cup
         { Append(s, c) : s \in { t \in StringsOf(n - 1) : Len(t) = n - 1 }, c \in VerChars }

VersionStrings == StringsOf(MaxVerLen)

FreshFork == [depth |-> 1, tree |-> "plain", detached |-> FALSE, merged |-> FALSE]

InitVersion ==
    /\ exists = TRUE
    /\ wt = Clone(FreshFork).wt
    /\ commits = Clone(FreshFork).commits
    /\ head = Clone(FreshFork).head
    /\ index = Clone(FreshFork).index
    /\ outcome = Outcome("init", <<>>, NoPackage, "Done", "ok", <<>>, <<>>)

NextVersion ==
    \E id \in {IdA, IdB}, v \in VersionStrings :
        /\ Len(commits) = 1
        /\ ExportMod(GoodPackage(id, v, 1))

SpecVersion == InitVersion /\ [][NextVersion]_vars

(***************************************************************************)
(* Properties.                                                             *)
(***************************************************************************)
\* The last command was an export or a remove and it succeeded.
Squashed(o) == o.cmd \in {"export", "remove"} /\ o.result = "Done"

\* The commits made by this tool (a fork's own commits carry ForkMsg).
ToolCommits == { i \in 1..Len(commits) : commits[i].msg # ForkMsg }

Store == <<exists, wt>>
History == <<commits, head, index>>

\* C1: after a successful export or remove the branch history, counted
\* along first parents, is exactly 2 commits long, however many commands
\* ran before.
C1_HistoryIsRootPlusTip ==
    Squashed(outcome) => HistoryLen(commits, head.tip) = 2

C1_Witness ==
    /\ Squashed(outcome)
    /\ Cardinality(ToolCommits) >= 3
    /\ HistoryLen(commits, head.tip) = 2

\* C2 as stated: after every successful export or remove the tip is a new
\* commit whose only parent is the root, the root is the same commit as
\* before, and the previous tip is not an ancestor of the new tip.
C2_Original ==
    [][ Squashed(outcome') =>
          LET root == WalkToRoot(commits, head.tip)
          IN  /\ head'.tip \notin 1..Len(commits)
              /\ commits'[head'.tip].parents = <<root>>
              /\ WalkToRoot(commits', head'.tip) = root
              /\ commits'[root] = commits[root]
              /\ head.tip \notin Ancestors(commits', head'.tip) ]_vars

\* C2 amended: as C2, but the previous tip is not an ancestor of the new
\* tip unless the previous tip is the root itself.
C2_TipOnRoot ==
    [][ Squashed(outcome') =>
          LET root == WalkToRoot(commits, head.tip)
          IN  /\ head'.tip \notin 1..Len(commits)
              /\ commits'[head'.tip].parents = <<root>>
              /\ WalkToRoot(commits', head'.tip) = root
              /\ commits'[root] = commits[root]
              /\ head.tip # root => head.tip \notin Ancestors(commits', head'.tip) ]_vars

\* Two commands have squashed, the second on top of the root and not of
\* the first one's commit.
C2_Witness ==
    /\ Squashed(outcome)
    /\ Cardinality(ToolCommits) >= 2
    /\ (head.tip - 1) \in ToolCommits
    /\ commits[head.tip].parents = <<1>>
    /\ (head.tip - 1) \notin Ancestors(commits, head.tip)

\* C3: exporting the same archive again right after a successful export
\* succeeds, leaves every entry of the store as it was, with the entry's
\* artifact holding the archive's bytes, and makes exactly one new commit
\* that replaces the tip: the history stays at 2 commits.
C3_ExportTwice ==
    [][ ( /\ outcome.cmd = "export" /\ outcome.result = "Done"
          /\ outcome'.cmd = "export" /\ outcome'.pkg = outcome.pkg ) =>
          LET name == EntryName(outcome.pkg.id, outcome.major)
          IN  /\ outcome'.result = "Done"
              /\ wt' = wt
              /\ wt'[name].dir
              /\ { f \in wt'[name].files : f[1] = ArtifactName }
                   = { <<ArtifactName, outcome.pkg.bytes>> }
              /\ Len(commits') = Len(commits) + 1
              /\ head'.tip = Len(commits')
              /\ commits'[head'.tip].tree = commits[head.tip].tree
              /\ HistoryLen(commits', head'.tip) = 2 ]_vars

\* PkgA1 exported twice in a row into a clone of a one-commit fork.
C3_Witness ==
    /\ outcome.cmd = "export" /\ outcome.result = "Done" /\ outcome.pkg = PkgA1
    /\ Len(commits) = 3
    /\ commits[1].msg = ForkMsg
    /\ commits[2].msg = AddUpdatePrefix \o IdA
    /\ commits[3].msg = AddUpdatePrefix \o IdA
    /\ commits[2].tree = commits[3].tree
    /\ EntryName(IdA, <<"2">>) \notin DOMAIN wt
    /\ <<ArtifactName, 1>> \in wt[EntryName(IdA, <<"1">>)].files

\* C4 as stated: remove of an id that names no directory of an initialized
\* store reports EntryNotFound and changes neither store nor history.
C4_Original ==
    [][ ( /\ exists
          /\ outcome'.cmd = "remove"
          /\ ~(outcome'.id \in DOMAIN wt /\ wt[outcome'.id].dir) ) =>
          /\ outcome'.result = "EntryNotFound"
          /\ UNCHANGED <<Store, History>> ]_vars

\* C5 as stated: an initialized store stays initialized, and its
\* repository stays, whatever command runs with whatever argument.
C5_Original ==
    [][ exists =>
          /\ exists'
          /\ GitDirName \in DOMAIN wt => GitDirName \in DOMAIN wt' ]_vars

\* C6: while the indexer directory does not exist, list, remove and export
\* end with NotInitialized and change nothing; for export this comes
\* before every check of the package.
C6_NotInitialized ==
    [][ (~exists /\ outcome'.cmd \in {"list", "remove", "export"}) =>
          /\ outcome'.result = "NotInitialized"
          /\ outcome'.exit = "fatal"
          /\ UNCHANGED <<Store, History>>
          /\ ~exists' ]_vars

\* An export of a package whose path does not exist, before init.
C6_Witness ==
    /\ ~exists
    /\ wt = EmptyTree
    /\ outcome.cmd = "export"
    /\ outcome.result = "NotInitialized"
    /\ ~outcome.pkg.present

\* C7 as stated: init on an existing path fails fatally with
\* AlreadyInitialized, without a clone and changing nothing; init on a path
\* that does not exist clones and leaves the store initialized (a clone
\* that fails is CloneFailed, which the claim does not speak of).
C7_Original ==
    [][ outcome'.cmd = "init" =>
          IF exists
            THEN /\ outcome'.result = "AlreadyInitialized"
                 /\ outcome'.exit = "fatal"
                 /\ UNCHANGED <<Store, History>>
            ELSE \/ outcome'.result = "CloneFailed"
                 \/ /\ outcome'.result = "Done"
                    /\ exists' ]_vars

\* C7 amended: init on an existing path warns AlreadyInitialized and
\* returns normally (not a fatal outcome), without a clone and changing
\* nothing; init on a path that does not exist leaves the store
\* initialized with the fork's clone when the clone succeeds, and fails
\* with CloneFailed, the store still uninitialized, when it does not.
C7_InitOnce ==
    [][ outcome'.cmd = "init" =>
          IF exists
            THEN /\ outcome'.result = "AlreadyInitialized"
                 /\ outcome'.exit = "ok"
                 /\ UNCHANGED <<Store, History>>
            ELSE \/ /\ outcome'.result = "Done"
                    /\ exists'
                    /\ GitDirName \in DOMAIN wt'
                    /\ head'.tip = Len(commits')
                 \/ /\ outcome'.result = "CloneFailed"
                    /\ outcome'.exit = "fatal"
                    /\ UNCHANGED <<Store, History>> ]_vars

\* init on a store that holds an exported entry since its own init.
C7_Witness ==
    /\ exists
    /\ outcome.cmd = "init"
    /\ outcome.result = "AlreadyInitialized"
    /\ outcome.exit = "ok"
    /\ ToolCommits # {}

\* C8 as stated: an export whose derived major version is empty fails with
\* InvalidVersion, creating no directory and no commit.
C8_Original ==
    [][ ( /\ outcome'.cmd = "export"
          /\ ExportError(outcome'.pkg) = "none"
          /\ MajorVersion(outcome'.pkg.ver) = <<>> ) =>
          /\ outcome'.result = "InvalidVersion"
          /\ wt' = wt
          /\ commits' = commits ]_vars

\* The first "." of s, or Len(s) + 1 when s has none.
FirstDot(s) ==
    IF \E i \in 1..Len(s) : s[i] = "."
      THEN CHOOSE i \in 1..Len(s) : s[i] = "." /\ \A j \in 1..(i - 1) : s[j] # "."
      ELSE Len(s) + 1

\* s is t with every "v" left out: the places of t that hold no "v", in
\* order, are the places of s.
IsWithoutV(s, t) ==
    LET kept == { i \in 1..Len(t) : t[i] # "v" }
    IN  /\ Len(s) = Cardinality(kept)
        /\ \A i \in kept : s[Cardinality({ j \in kept : j <= i })] = t[i]

\* C9: the major version of an exported package is the part of its version
\* string before the first ".", with every "v" left out; the entry is
\* stored under id@major.
C9_MajorVersion ==
    /\ MajorVersion(<<"v", "1", ".", "2", ".", "3">>) = <<"1">>
    /\ MajorVersion(<<"2", ".", "0", ".", "0">>) = <<"2">>
    /\ MajorVersion(<<"v", "v", "3", ".", "0">>) = <<"3">>
    /\ (outcome.cmd = "export" /\ outcome.result = "Done") =>
          LET s == outcome.pkg.ver
              segment == SubSeq(s, 1, FirstDot(s) - 1)
          IN  /\ IsWithoutV(outcome.major, segment)
              /\ EntryName(outcome.pkg.id, outcome.major) \in DOMAIN wt

\* A version with a "v" inside its first segment and more segments after.
C9_Witness ==
    /\ outcome.cmd = "export" /\ outcome.result = "Done"
    /\ outcome.pkg.ver = <<"1", "v", ".">>
    /\ outcome.major = <<"1">>

\* C10: list on an initialized store prints each immediate subdirectory
\* that holds the artifact file exactly once and nothing else, whatever
\* order the directory is read in, and changes neither store nor history.
C10_List ==
    [][ (exists /\ outcome'.cmd = "list") =>
          LET out == outcome'.out
              shown == { out[i] : i \in 1..Len(out) }
          IN  /\ outcome'.result = "Done"
              /\ shown = { n \in DOMAIN wt :
                             /\ wt[n].dir
                             /\ \E f \in wt[n].files : f[1] = ArtifactName }
              /\ Len(out) = Cardinality(shown)
              /\ UNCHANGED <<Store, History>> ]_vars

\* A listing of two entries from a store that also holds a file, a
\* directory without the artifact and the repository's directory.
C10_Witness ==
    /\ outcome.cmd = "list" /\ outcome.result = "Done"
    /\ Len(outcome.out) = 2
    /\ ReadmeName \in DOMAIN wt /\ ~wt[ReadmeName].dir
    /\ DocsName \in DOMAIN wt /\ wt[DocsName].dir
    /\ GitDirName \in DOMAIN wt

C12_ExportStoresArtifact ==
    [][ (outcome'.cmd = "export" /\ outcome'.result = "Done") =>
          LET pkg == outcome'.pkg
              key == pkg.id \o <<"@">> \o outcome'.major
          IN  /\ key \in DOMAIN wt'
              /\ wt'[key].dir
              /\ { f \in wt'[key].files : f[1] = ArtifactName }
                   = { <<ArtifactName, pkg.bytes>> }
              /\ Len(commits') = Len(commits) + 1
              /\ head'.tip = Len(commits')
              /\ commits'[head'.tip].msg = AddUpdatePrefix \o pkg.id
              /\ <<key, ArtifactName, pkg.bytes>> \in commits'[head'.tip].tree ]_vars

\* Package a, version 1.2, with bytes 2 exported over "a@1" with bytes 1.
C12_Witness ==
    /\ outcome.cmd = "export" /\ outcome.result = "Done" /\ outcome.pkg = PkgA1b
    /\ head.tip >= 2
    /\ <<<<"a", "@", "1">>, ArtifactName, 1>> \in commits[head.tip - 1].tree
    /\ <<<<"a", "@", "1">>, ArtifactName, 2>> \in commits[head.tip].tree
    /\ wt[<<"a", "@", "1">>].files = { <<ArtifactName, 2>> }

\* A directory name of the form id@majorVersion.
IsEntryName(n) == \E i \in 1..Len(n) : n[i] = "@"

EntryDirs == { n \in DOMAIN wt : IsEntryName(n) }

\* C13: every entry directory id@majorVersion of the store holds exactly
\* one file, the artifact under the fixed file name, after any sequence of
\* commands on a clone whose entries each held one artifact.
C13_OneArtifactPerEntry ==
    \A n \in EntryDirs :
        /\ wt[n].dir
        /\ Cardinality(wt[n].files) = 1
        /\ \A f \in wt[n].files : f[1] = ArtifactName

\* Three commands have squashed, the last one a remove, and two entries
\* are left.
C13_Witness ==
    /\ outcome.cmd = "remove" /\ outcome.result = "Done"
    /\ Cardinality(ToolCommits) >= 3
    /\ Cardinality(EntryDirs) >= 2

\* The entry a successful export or remove is about.
KeyOf(o) ==
    IF o.cmd = "export" THEN o.pkg.id \o <<"@">> \o o.major ELSE o.id

\* C14: the commit a squash makes holds exactly the files of the working
\* directory at that time, and so does the index: after an export the
\* exported artifact is in the tip's tree, after a remove nothing of the
\* removed entry is; the reset to the root inside the squash leaves every
\* file of the working directory as it was.
C14_CommitIsWorkTree ==
    [][ Squashed(outcome') =>
          LET key == KeyOf(outcome')
              tree == commits'[head'.tip].tree
          IN  /\ tree = Snapshot(wt')
              /\ index' = Snapshot(wt')
              /\ outcome'.cmd = "export" =>
                    <<key, ArtifactName, outcome'.pkg.bytes>> \in tree
              /\ outcome'.cmd = "remove" =>
                    ~ \E e \in tree : e[1] = key
              /\ \A n \in DOMAIN wt \ {key} : n \in DOMAIN wt' /\ wt'[n] = wt[n]
              /\ DOMAIN wt' \subseteq DOMAIN wt \cup {key} ]_vars

\* A remove whose commit, made on a root with an empty tree, dropped the
\* entry that the tip before held, with the README still in place.
C14_Witness ==
    /\ outcome.cmd = "remove" /\ outcome.result = "Done"
    /\ head.tip >= 3
    /\ \E e \in commits[head.tip - 1].tree : e[1] = outcome.id
    /\ ~ \E e \in commits[head.tip].tree : e[1] = outcome.id
    /\ commits[commits[head.tip].parents[1]].tree = {}
    /\ ReadmeName \in DOMAIN wt
    /\ commits[head.tip].tree = Snapshot(wt)

\* C15: a squash on a repository whose HEAD is not a branch fails with
\* DetachedState before anything is reset, staged or committed: the
\* commits, HEAD and the index are what they were.  A detached repository
\* never sees an export or a remove succeed, and one whose files were
\* changed by the command ends in DetachedState.
C15_DetachedState ==
    [][ outcome'.cmd \in {"export", "remove"} =>
          /\ outcome'.result = "DetachedState" =>
                /\ ~head.branch
                /\ UNCHANGED History
          /\ (head.tip > 0 /\ ~head.branch) =>
                /\ outcome'.result # "Done"
                /\ (exists' /\ GitDirName \in DOMAIN wt' /\ wt' # wt) =>
                      outcome'.result = "DetachedState" ]_vars

\* An export into a detached clone: the artifact is copied, nothing of it
\* is staged and no commit is made.
C15_Witness ==
    /\ outcome.cmd = "export" /\ outcome.result = "DetachedState"
    /\ ~head.branch
    /\ KeyOf([outcome EXCEPT !.major = MajorVersion(outcome.pkg.ver)]) \in DOMAIN wt
    /\ index # Snapshot(wt)
    /\ ToolCommits = {}
    /\ head.tip = Len(commits)

\* A package that export cannot take: no such path, no archive, no or bad
\* metadata, or an id or version that is absent or no string.
Defective(pkg) ==
    \/ ~pkg.present
    \/ pkg.archive # "zip"
    \/ pkg.meta # "ok"
    \/ pkg.verKind # "str"
    \/ pkg.idKind # "str"

PackageErrors ==
    { "SourceNotFound", "ArchiveUnreadable", "MetadataMissing", "MetadataMalformed",
      "FieldMissingVersion", "FieldTypeMismatchVersion",
      "FieldMissingId", "FieldTypeMismatchId" }

\* C16: on an initialized store an export of a package whose path does not
\* exist, whose archive is unreadable, whose metadata is missing or
\* malformed, or whose id or version is absent or no string ends fatally
\* with the matching error and changes nothing: no directory is created or
\* overwritten and the history is as before.
C16_ExportFailsBeforeMutation ==
    [][ (exists /\ outcome'.cmd = "export") =>
          /\ Defective(outcome'.pkg) =>
                /\ outcome'.result \in PackageErrors
                /\ outcome'.exit = "fatal"
          /\ outcome'.result \in PackageErrors =>
                /\ Defective(outcome'.pkg)
                /\ UNCHANGED <<Store, History>> ]_vars

\* An export of a package without an id into a store that holds entries.
C16_Witness ==
    /\ exists
    /\ outcome.cmd = "export" /\ outcome.result = "FieldMissingId"
    /\ outcome.pkg.verKind = "str"
    /\ EntryDirs # {}
    /\ ToolCommits # {}
    /\ \A n \in EntryDirs : n[1] # "@"

\* The commits on the first-parent line of c, c included.
RECURSIVE FirstParentLine(_, _)
FirstParentLine(cs, c) ==
    IF cs[c].parents = <<>> THEN {c}
    ELSE {c} \cup FirstParentLine(cs, cs[c].parents[1])

\* The tip of the clone: the last of the fork's commits.
CloneTip == Cardinality({ i \in 1..Len(commits) : commits[i].msg = ForkMsg })

\* C17: every parent of a commit is an earlier commit, so the walk along
\* first parents takes fewer steps than there are commits and ends; it
\* ends at a commit without parents on the tip's first-parent line.  When
\* the tip was made by this tool the walk ends after one step, at the
\* commit where the first-parent line of the clone's tip ends.
C17_WalkEndsAtRoot ==
    head.tip > 0 =>
      LET root == WalkToRoot(commits, head.tip)
          steps == HistoryLen(commits, head.tip) - 1
      IN  /\ \A i \in 1..Len(commits) :
                \A k \in 1..Len(commits[i].parents) :
                    commits[i].parents[k] \in 1..(i - 1)
          /\ steps < Len(commits)
          /\ commits[root].parents = <<>>
          /\ root \in FirstParentLine(commits, head.tip)
          /\ head.tip \in ToolCommits =>
                /\ steps = 1
                /\ commits[head.tip].parents = <<root>>
                /\ root \in FirstParentLine(commits, CloneTip)

\* A squash on the clone of a fork whose tip is a merge: the walk went to
\* the first parent's root, not to the first commit.
C17_Witness ==
    /\ Squashed(outcome)
    /\ \E i \in 1..Len(commits) : Len(commits[i].parents) = 2
    /\ head.tip \in ToolCommits
    /\ WalkToRoot(commits, head.tip) = 2
    /\ commits[1].parents = <<>>

\* Whether the name n is an entry of the id, whatever its major version.
IsEntryOf(n, id) ==
    /\ Len(n) > Len(id)
    /\ SubSeq(n, 1, Len(id) + 1) = id \o <<"@">>

\* C18: a successful export or remove with key K leaves every other name
\* of the store as it was: none appears, none disappears, and each keeps
\* its files and their bytes; in the new tip's tree the files outside K
\* are those the store held before.  So an export of another major
\* version of an id leaves the id's other entries in place beside the
\* new one.
C18_OnlyKeyChanges ==
    [][ Squashed(outcome') =>
          LET key == KeyOf(outcome')
              others == (DOMAIN wt \cup DOMAIN wt') \ {key}
          IN  /\ \A n \in others :
                    /\ n \in DOMAIN wt
                    /\ n \in DOMAIN wt'
                    /\ wt'[n] = wt[n]
              /\ { e \in commits'[head'.tip].tree : e[1] # key }
                   = { e \in Snapshot(wt) : e[1] # key }
              /\ outcome'.cmd = "export" =>
                    /\ key \in DOMAIN wt'
                    /\ \A n \in DOMAIN wt :
                          IsEntryOf(n, outcome'.pkg.id) /\ n # key =>
                             /\ n \in DOMAIN wt'
                             /\ wt'[n].files = wt[n].files ]_vars

\* After the export of major version 2 of an id whose major version 1 is
\* in the store, both entries are there, each with its own artifact.
C18_Witness ==
    /\ Squashed(outcome)
    /\ outcome.cmd = "export"
    /\ outcome.pkg = PkgA2
    /\ EntryName(IdA, <<"1">>) \in DOMAIN wt
    /\ EntryName(IdA, <<"2">>) \in DOMAIN wt
    /\ \E b \in {1, 2} : wt[EntryName(IdA, <<"1">>)].files = { <<ArtifactName, b>> }
    /\ wt[EntryName(IdA, <<"2">>)].files = { <<ArtifactName, 3>> }

====
